---- MODULE Spec2Model ----
(***************************************************************************)
(* Model of server.js: an express application with six routes over the     *)
(* MongoDB collection shop.products.                                       *)
(*                                                                         *)
(* A request is handled in two steps, as the code is split by its `await`: *)
(* the route handler up to the store call (ensureDB, validation, building  *)
(* the command), then the store executing the command atomically together  *)
(* with the handler's continuation, which only turns the store's answer    *)
(* into the response.  Store failures (the catch blocks, status 500) are    *)
(* not modelled: the store answers every command.                          *)
(***************************************************************************)
EXTENDS Integers, Sequences, FiniteSets, TLC

\* ------------------------------------------------------------------ bounds
\* ObjectIds the driver generates (documents ever inserted).
MaxProducts == 2
\* Requests in flight at once in SpecConc.
MaxInFlight == 2
\* Requests the clients send in one run.
MaxRequests == 3

\* --------------------------------------------------------- JSON/BSON values
\* A value is <<type, number, string>>, so that values of different types
\* can be compared.
Undefined == <<"undefined", 0, "">>
Num(n) == <<"number", n, "">>
Str(s) == <<"string", 0, s>>
Bool(b) == <<"boolean", IF b THEN 1 ELSE 0, "">>
ObjId(n) == <<"objectid", n, "">>
Date(t) == <<"date", t, "">>

TypeOf(v) == v[1]

\* JavaScript truthiness, as used by `!name`, `if (category)`, `if (fields)`.
Truthy(v) ==
  CASE TypeOf(v) = "undefined" -> FALSE
    [] TypeOf(v) = "number" -> v[2] # 0
    [] TypeOf(v) = "string" -> v[3] # ""
    [] TypeOf(v) = "boolean" -> v[2] = 1
    [] OTHER -> TRUE

\* The empty object {}.
EmptyObj == [f \in {} |-> Undefined]

\* obj with field f set to v.
SetField(obj, f, v) == [g \in DOMAIN obj \cup {f} |-> IF g = f THEN v ELSE obj[g]]

\* obj[f] in JavaScript: undefined when the key is missing.
Get(obj, f) == IF f \in DOMAIN obj THEN obj[f] ELSE Undefined

\* ------------------------------------------------------------ identifiers
\* ObjectId.toHexString: 24 lower-case hex digits.
ToHexString(n) ==
  CASE n = 1 -> "65a000000000000000000001"
    [] n = 2 -> "65a000000000000000000002"
    [] n = 3 -> "65a000000000000000000003"
    [] n = 4 -> "65a000000000000000000004"
    [] OTHER -> "65a000000000000000000000"

\* The same digits written in upper case: another string for the same id.
UpperHex(n) ==
  CASE n = 1 -> "65A000000000000000000001"
    [] n = 2 -> "65A000000000000000000002"
    [] n = 3 -> "65A000000000000000000003"
    [] n = 4 -> "65A000000000000000000004"
    [] OTHER -> "65A000000000000000000000"

Oids == 1 .. (MaxProducts + 1)

\* new ObjectId(id) for a string: the id the hex digits denote, 0 when the
\* string is no ObjectId.
ParseObjectId(s) ==
  IF \E n \in Oids : s \in {ToHexString(n), UpperHex(n)}
  THEN CHOOSE n \in Oids : s \in {ToHexString(n), UpperHex(n)}
  ELSE 0

\* Variant: no check of the id string.
AnyStringValid(s) == TRUE

\* ObjectId.isValid(id)
IsValid(s) == ParseObjectId(s) # 0

\* Identifier strings clients send: a malformed one, the hex strings of the
\* ids the driver can generate and of one it never generates, and an
\* upper-case spelling.
IdStrings ==
  {"not-an-id", UpperHex(1)} \cup {ToHexString(n) : n \in Oids}

\* ------------------------------------------------------------ serialization
\* Date.prototype.toISOString
ToISOString(t) ==
  CASE t = 0 -> "2024-01-01T00:00:00.000Z"
    [] t = 1 -> "2024-01-01T00:00:00.001Z"
    [] t = 2 -> "2024-01-01T00:00:00.002Z"
    [] t = 3 -> "2024-01-01T00:00:00.003Z"
    [] t = 4 -> "2024-01-01T00:00:00.004Z"
    [] OTHER -> "2024-01-01T00:00:00.005Z"

\* res.json on one value: ObjectId and Date go through toJSON.
JsonValue(v) ==
  CASE TypeOf(v) = "objectid" -> Str(ToHexString(v[2]))
    [] TypeOf(v) = "date" -> Str(ToISOString(v[2]))
    [] OTHER -> v

\* res.json on an object.
Json(obj) == [f \in DOMAIN obj |-> JsonValue(obj[f])]


\* ------------------------------------------------------------------ inputs
\* Request bodies after express.json(): a key whose value is Undefined is a
\* key the body does not have.  createdAt stands for the body fields the
\* handlers have no business writing.
\* Bodies of POST: the acceptable ones, then one kind per rejection (empty
\* name, missing category, non-numeric price).
PostBodies ==
  [name : {Str("Pen")},
   category : {Str("Ink"), Str("Toy")},
   price : {Num(5), Num(10)},
   stock : {Undefined, Str("abc"), Num(7)},
   createdAt : {Undefined}]
  \cup
  [name : {Str("")},
   category : {Str("Ink")},
   price : {Num(5)},
   stock : {Undefined, Num(7)},
   createdAt : {Undefined}]
  \cup
  [name : {Str("Pen")},
   category : {Undefined},
   price : {Num(5)},
   stock : {Undefined},
   createdAt : {Undefined}]
  \cup
  [name : {Str("Pen")},
   category : {Str("Ink")},
   price : {Str("abc")},
   stock : {Undefined},
   createdAt : {Undefined}]

\* Bodies of PUT: every subset of the four fields (the empty one included),
\* then bodies with a non-numeric price or stock next to other fields.
PutBodies ==
  [name : {Undefined, Str("")},
   category : {Undefined, Str("Toy")},
   price : {Undefined, Num(10)},
   stock : {Undefined, Num(7)},
   createdAt : {Str("x")}]
  \cup
  [name : {Undefined, Str("")},
   category : {Undefined},
   price : {Str("abc")},
   stock : {Undefined, Num(7)},
   createdAt : {Str("x")}]
  \cup
  [name : {Undefined},
   category : {Undefined},
   price : {Undefined, Num(10)},
   stock : {Str("abc")},
   createdAt : {Str("x")}]

\* Query strings of the list route (req.query): the filters and the sort
\* without a projection, then the projections.
Queries ==
  [category : {Undefined, Str(""), Str("Ink")},
   minPrice : {Undefined, Str("abc"), Str("5"), Str("10")},
   sort : {Undefined, Str("price")},
   fields : {Undefined}]
  \cup
  [category : {Undefined, Str("Ink")},
   minPrice : {Undefined},
   sort : {Undefined},
   fields : {Str("name, price"), Str("_id,name"), Str(",")}]

NoQuery ==
  [category |-> Undefined, minPrice |-> Undefined, sort |-> Undefined,
   fields |-> Undefined]

\* --------------------------------------------------- list route: the query
NaN == <<"number", 0, "NaN">>

\* Number(s) for a query-string value.
ToNumber(v) ==
  CASE v = Str("10") -> Num(10)
    [] v = Str("5") -> Num(5)
    [] v = Str("") -> Num(0)
    [] OTHER -> NaN

\* Number.isNaN
IsNaN(v) == v = NaN

\* String(fields).split(",")
Split(v) ==
  CASE v = Str("name, price") -> <<"name", " price">>
    [] v = Str("_id,name") -> <<"_id", "name">>
    [] v = Str("updatedAt") -> <<"updatedAt">>
    [] v = Str(",") -> <<"", "">>
    [] OTHER -> <<v[3]>>

\* String.prototype.trim
Trim(s) == IF s = " price" THEN "price" ELSE s

\* .split(",").map((f) => f.trim()).filter(Boolean), as a set of names
SelectedFields(v) == {Trim(Split(v)[i]) : i \in 1 .. Len(Split(v))} \ {""}

\* The filter document: {category, price: {$gte: min}}; the key "price" holds
\* the $gte bound.
BuildFilter(q) ==
  LET f1 == IF Truthy(q.category)
            THEN SetField(EmptyObj, "category", q.category) ELSE EmptyObj
  IN IF q.minPrice # Undefined
     THEN SetField(f1, "price", ToNumber(q.minPrice)) ELSE f1

\* The list route rejects the request: minPrice given and not a number.
BadMinPrice(q) == q.minPrice # Undefined /\ IsNaN(ToNumber(q.minPrice))

\* The projection document ({} with on = FALSE when `projection` stays
\* undefined).
BuildProjection(q) ==
  IF Truthy(q.fields)
  THEN LET sel == SelectedFields(q.fields)
           keys == IF "_id" \in sel THEN sel ELSE sel \cup {"_id"}
       IN [on |-> TRUE,
           doc |-> [f \in keys |-> IF f \in sel THEN Num(1) ELSE Num(0)]]
  ELSE [on |-> FALSE, doc |-> EmptyObj]

\* sortObj: "price" for {price: 1}, "" for undefined.
BuildSort(q) == IF q.sort = Str("price") THEN "price" ELSE ""

\* ------------------------------------------------------------ create route
\* The negation of `!name || !category || typeof price !== "number"`.
ValidCreate(body) ==
  /\ Truthy(Get(body, "name"))
  /\ Truthy(Get(body, "category"))
  /\ TypeOf(Get(body, "price")) = "number"

\* Variant: `stock` taken from the body as it is, without the default.
StockAsSent(body) == Get(body, "stock")

\* stock: typeof stock === "number" ? stock : 0
StockOrDefault(body) ==
  IF TypeOf(Get(body, "stock")) = "number" THEN Get(body, "stock") ELSE Num(0)

\* const doc = {name, category, price, stock, createdAt: new Date()}
NewDoc(body, t) ==
  [name |-> Get(body, "name"), category |-> Get(body, "category"),
   price |-> Get(body, "price"), stock |-> StockOrDefault(body),
   createdAt |-> Date(t)]

\* ------------------------------------------------------------ update route
Allowed == {"name", "category", "price", "stock"}

\* Variant: every key of the body goes into `updates`, allowed or not.
BuildUpdatesFromBody(body) ==
  [k \in {a \in DOMAIN body : body[a] # Undefined} |-> body[k]]

\* for (const key of allowed) if (req.body[key] !== undefined) updates[key] = ...
BuildUpdates(body) ==
  [k \in {a \in Allowed : Get(body, a) # Undefined} |-> body[k]]

\* The error message of the update route's validation, "" when it passes.
UpdateError(updates) ==
  IF DOMAIN updates = {} THEN "No valid fields to update"
  ELSE IF Get(updates, "price") # Undefined /\ TypeOf(updates["price"]) # "number"
  THEN "price must be a number"
  ELSE IF Get(updates, "stock") # Undefined /\ TypeOf(updates["stock"]) # "number"
  THEN "stock must be a number"
  ELSE ""

\* ------------------------------------------------------------- the store
\* A collection is a function from the ids of its documents to them.
EmptyColl == [o \in {} |-> EmptyObj]

\* insertOne(doc): the driver gives the document the fresh _id.
InsertOne(coll, doc, oid) ==
  [o \in DOMAIN coll \cup {oid} |->
     IF o = oid THEN SetField(doc, "_id", ObjId(oid)) ELSE coll[o]]

\* findOne({_id}): the document in a sequence, <<>> for null.
FindOne(coll, oid) == IF oid \in DOMAIN coll THEN <<coll[oid]>> ELSE <<>>

\* Variant: the update document without $set, which replaces the document.
ReplaceDocument(doc, updates, t) ==
  [f \in {"_id", "updatedAt"} \cup DOMAIN updates |->
     IF f = "updatedAt" THEN Date(t)
     ELSE IF f = "_id" THEN doc["_id"] ELSE updates[f]]

\* {$set: updates, $currentDate: {updatedAt: true}} on one document.
ApplyUpdate(doc, updates, t) ==
  [f \in DOMAIN doc \cup DOMAIN updates \cup {"updatedAt"} |->
     IF f = "updatedAt" THEN Date(t)
     ELSE IF f \in DOMAIN updates THEN updates[f] ELSE doc[f]]

\* Variant: {upsert: true}, which inserts the document the filter misses.
FindOneAndUpdateUpsert(coll, oid, updates, t) ==
  LET before == IF oid \in DOMAIN coll THEN coll[oid]
                ELSE [_id |-> ObjId(oid)]
      after == ApplyUpdate(before, updates, t)
  IN [coll |-> [o \in DOMAIN coll \cup {oid} |->
                  IF o = oid THEN after ELSE coll[o]],
      value |-> <<after>>]

\* Variant: {upsert: true, returnDocument: "before"}: the inserted document
\* is answered with null.
FindOneAndUpdateUpsertBefore(coll, oid, updates, t) ==
  LET before == IF oid \in DOMAIN coll THEN coll[oid]
                ELSE [_id |-> ObjId(oid)]
      after == ApplyUpdate(before, updates, t)
  IN [coll |-> [o \in DOMAIN coll \cup {oid} |->
                  IF o = oid THEN after ELSE coll[o]],
      value |-> IF oid \in DOMAIN coll THEN <<coll[oid]>> ELSE <<>>]

\* findOneAndUpdate({_id}, update, {returnDocument: "after"}): no upsert.
\* value is the document after the update, <<>> for null.
FindOneAndUpdate(coll, oid, updates, t) ==
  IF oid \in DOMAIN coll
  THEN LET after == ApplyUpdate(coll[oid], updates, t)
       IN [coll |-> [coll EXCEPT ![oid] = after], value |-> <<after>>]
  ELSE [coll |-> coll, value |-> <<>>]

\* deleteOne({_id})
DeleteOne(coll, oid) ==
  IF oid \in DOMAIN coll
  THEN [coll |-> [o \in DOMAIN coll \ {oid} |-> coll[o]], deletedCount |-> 1]
  ELSE [coll |-> coll, deletedCount |-> 0]

\* Variant: $gt in place of $gte.
MatchesAbove(doc, filter) ==
  /\ "category" \in DOMAIN filter => Get(doc, "category") = filter["category"]
  /\ "price" \in DOMAIN filter =>
       /\ TypeOf(Get(doc, "price")) = "number"
       /\ Get(doc, "price")[2] > filter["price"][2]

\* A document matches the filter: equality on category, $gte on price.
Matches(doc, filter) ==
  /\ "category" \in DOMAIN filter => Get(doc, "category") = filter["category"]
  /\ "price" \in DOMAIN filter =>
       /\ TypeOf(Get(doc, "price")) = "number"
       /\ Get(doc, "price") # NaN
       /\ Get(doc, "price")[2] >= filter["price"][2]

\* find(filter): the ids of the matching documents.
Find(coll, filter) == {o \in DOMAIN coll : Matches(coll[o], filter)}

\* cursor.project(projection) on one document: with a field marked 1 only
\* the marked fields the document has (and _id unless marked 0); with nothing
\* marked 1, every field but those marked 0.
Project(doc, proj) ==
  IF ~proj.on THEN doc
  ELSE LET p == proj.doc
           included == {f \in DOMAIN p : p[f] = Num(1)}
           excluded == {f \in DOMAIN p : p[f] = Num(0)}
           keep == IF included # {}
                   THEN (included \cup {"_id"}) \ excluded
                   ELSE DOMAIN doc \ excluded
       IN [f \in keep \cap DOMAIN doc |-> doc[f]]

\* The orders in which the cursor may deliver the documents ids: ascending
\* price under sort({price: 1}), any order (natural order) otherwise.
Orders(coll, ids, sortKey) ==
  {s \in [1 .. Cardinality(ids) -> ids] :
     /\ \A i, j \in DOMAIN s : i # j => s[i] # s[j]
     /\ sortKey = "price" =>
          \A i, j \in DOMAIN s :
            i < j => Get(coll[s[i]], "price")[2] <= Get(coll[s[j]], "price")[2]}


\* ------------------------------------------------------------------- state
VARIABLES
  productsCollection, \* the collection handle is set (line 17, 24)
  listening,          \* app.listen has been called
  products,           \* the documents of shop.products, by ObjectId
  lastOid,            \* the last ObjectId the driver generated
  slot,               \* per connection: the request and where its handling is
  sent,               \* history: per id not yet updated or deleted, the body
                      \* of the create request that was answered with it
  gone,               \* history: the ids whose delete was answered 200
  served              \* history: the number of requests taken so far

vars == <<productsCollection, listening, products, lastOid, slot, sent, gone, served>>

Slots == 1 .. MaxInFlight

\* The clock read by new Date() and $currentDate: every request arrives a
\* millisecond after the one before it.
now == served

NoBody ==
  [name |-> Undefined, category |-> Undefined, price |-> Undefined,
   stock |-> Undefined, createdAt |-> Undefined]

NoProjection == [on |-> FALSE, doc |-> EmptyObj]

\* A connection with no request.
Idle ==
  [pc |-> "idle", method |-> "", id |-> "", body |-> NoBody, query |-> NoQuery,
   op |-> "", oid |-> 0, arg |-> EmptyObj, proj |-> NoProjection, sort |-> "",
   status |-> 0, kind |-> "", items |-> <<>>, late |-> FALSE, overlap |-> {}]

\* The request as it reaches its route.  late: the id it names was deleted
\* (answered 200) before it arrived.
Request(method, id, body, query) ==
  [Idle EXCEPT !.method = method, !.id = id, !.body = body, !.query = query,
               !.late = ParseObjectId(id) \in gone]

\* res.status(status).json(obj)
Respond(req, status, obj) ==
  [req EXCEPT !.pc = "done", !.status = status, !.kind = "object",
              !.items = <<obj>>]

\* res.json(array)
RespondArray(req, status, objs) ==
  [req EXCEPT !.pc = "done", !.status = status, !.kind = "array",
              !.items = objs]

\* `await productsCollection.<op>(...)`: the command is with the store.
Await(req, op, oid, arg) ==
  [req EXCEPT !.pc = "store", !.op = op, !.oid = oid, !.arg = arg]

Error(msg) == [error |-> Str(msg)]

\* Variant: ensureDB lets every request through.
AlwaysReady == TRUE

\* ensureDB lets the request through to its route: `productsCollection` is set.
EnsureDB == productsCollection

\* ensureDB answers instead of the route.
NotReady(req) == Respond(req, 503, Error("Database not ready yet"))

\* A connection takes a new request: it leaves the requests it overlapped.
Take(r, req) ==
  /\ served < MaxRequests
  /\ served' = served + 1
  /\ slot' = [x \in Slots |->
               IF x = r THEN req
               ELSE [slot[x] EXCEPT !.overlap = @ \ {r}]]

\* The requests still with the store that name document oid, other than r's.
Pending(r, oid) ==
  {x \in Slots \ {r} : slot[x].pc = "store" /\ slot[x].oid = oid}

\* The store has answered r's command.
Answer(r, req) ==
  slot' = [slot EXCEPT ![r] = [req EXCEPT !.overlap = Pending(r, slot[r].oid)]]

\* Inserts the store has not executed yet.
PendingInserts ==
  Cardinality({x \in Slots : slot[x].pc = "store" /\ slot[x].op = "insertOne"})

\* ------------------------------------------------------------------ startup
\* connectDB (lines 19-27)
ConnectDB ==
  /\ ~productsCollection
  /\ productsCollection' = TRUE
  /\ UNCHANGED <<listening, products, lastOid, slot, sent, gone, served>>

\* .then(() => app.listen(PORT)) (lines 196-199)
Listen ==
  /\ productsCollection
  /\ ~listening
  /\ listening' = TRUE
  /\ UNCHANGED <<productsCollection, products, lastOid, slot, sent, gone, served>>

\* ------------------------------------------------------------------- routes
\* GET / (lines 30-32): no ensureDB.
GetRoot(r) ==
  /\ listening
  /\ slot[r].pc = "idle"
  /\ Take(r, Respond(Request("ROOT", "", NoBody, NoQuery), 200,
                     [status |-> Str("ok"), service |-> Str("practice11"),
                      time |-> Str(ToISOString(now))]))
  /\ UNCHANGED <<productsCollection, listening, products, lastOid, sent, gone>>

\* GET /api/products up to the await (lines 42-79)
ListProducts(r, q) ==
  /\ listening
  /\ slot[r].pc = "idle"
  /\ LET req == Request("LIST", "", NoBody, q)
     IN Take(r, IF ~EnsureDB THEN NotReady(req)
                ELSE IF BadMinPrice(q)
                THEN Respond(req, 400, Error("minPrice must be a number"))
                ELSE [Await(req, "find", 0, BuildFilter(q))
                        EXCEPT !.proj = BuildProjection(q),
                               !.sort = BuildSort(q)])
  /\ UNCHANGED <<productsCollection, listening, products, lastOid, sent, gone>>

\* GET /api/products/:id up to the await (lines 88-96)
GetProduct(r, id) ==
  /\ listening
  /\ slot[r].pc = "idle"
  /\ LET req == Request("GET", id, NoBody, NoQuery)
     IN Take(r, IF ~EnsureDB THEN NotReady(req)
                ELSE IF ~IsValid(id) THEN Respond(req, 400, Error("Invalid id"))
                ELSE Await(req, "findOne", ParseObjectId(id), EmptyObj))
  /\ UNCHANGED <<productsCollection, listening, products, lastOid, sent, gone>>

\* POST /api/products up to the await (lines 107-126)
PostProduct(r, body) ==
  /\ listening
  /\ slot[r].pc = "idle"
  /\ (EnsureDB /\ ValidCreate(body)) =>
       lastOid + PendingInserts < MaxProducts
  /\ LET req == Request("POST", "", body, NoQuery)
     IN Take(r, IF ~EnsureDB THEN NotReady(req)
                ELSE IF ~ValidCreate(body)
                THEN Respond(req, 400,
                       [error |-> Str("Validation error"),
                        details |-> Str("name and category required; price must be a number")])
                ELSE Await(req, "insertOne", 0, NewDoc(body, now)))
  /\ UNCHANGED <<productsCollection, listening, products, lastOid, sent, gone>>

\* The ids a write command is issued on are no longer as created.
Touch(id) ==
  sent' = [o \in DOMAIN sent \ {ParseObjectId(id)} |-> sent[o]]

\* PUT /api/products/:id up to the await (lines 135-167)
PutProduct(r, id, body) ==
  /\ listening
  /\ slot[r].pc = "idle"
  /\ LET req == Request("PUT", id, body, NoQuery)
         updates == BuildUpdates(body)
     IN IF ~EnsureDB
        THEN Take(r, NotReady(req)) /\ UNCHANGED sent
        ELSE IF ~IsValid(id)
        THEN Take(r, Respond(req, 400, Error("Invalid id"))) /\ UNCHANGED sent
        ELSE IF UpdateError(updates) # ""
        THEN Take(r, Respond(req, 400, Error(UpdateError(updates))))
             /\ UNCHANGED sent
        ELSE /\ Take(r, Await(req, "findOneAndUpdate", ParseObjectId(id), updates))
             /\ Touch(id)
  /\ UNCHANGED <<productsCollection, listening, products, lastOid, gone>>

\* DELETE /api/products/:id up to the await (lines 178-186)
DeleteProduct(r, id) ==
  /\ listening
  /\ slot[r].pc = "idle"
  /\ LET req == Request("DELETE", id, NoBody, NoQuery)
     IN IF ~EnsureDB
        THEN Take(r, NotReady(req)) /\ UNCHANGED sent
        ELSE IF ~IsValid(id)
        THEN Take(r, Respond(req, 400, Error("Invalid id"))) /\ UNCHANGED sent
        ELSE /\ Take(r, Await(req, "deleteOne", ParseObjectId(id), EmptyObj))
             /\ Touch(id)
  /\ UNCHANGED <<productsCollection, listening, products, lastOid, gone>>

\* ------------------------------------- the store's answer and the response
\* cursor.toArray() and res.json(result) (lines 75-80)
ListReply(r) ==
  /\ slot[r].pc = "store"
  /\ slot[r].op = "find"
  /\ \E s \in Orders(products, Find(products, slot[r].arg), slot[r].sort) :
       Answer(r, RespondArray(slot[r], 200,
                   [i \in DOMAIN s |-> Json(Project(products[s[i]], slot[r].proj))]))
  /\ UNCHANGED <<productsCollection, listening, products, lastOid, sent, gone, served>>

\* findOne and lines 97-99
GetReply(r) ==
  /\ slot[r].pc = "store"
  /\ slot[r].op = "findOne"
  /\ LET product == FindOne(products, slot[r].oid)
     IN Answer(r, IF product = <<>>
                  THEN Respond(slot[r], 404, Error("Not found"))
                  ELSE Respond(slot[r], 200, Json(product[1])))
  /\ UNCHANGED <<productsCollection, listening, products, lastOid, sent, gone, served>>

\* insertOne and line 127
PostReply(r) ==
  /\ slot[r].pc = "store"
  /\ slot[r].op = "insertOne"
  /\ LET insertedId == lastOid + 1
         created == Json(SetField(slot[r].arg, "_id", ObjId(insertedId)))
         returned == ParseObjectId(created["_id"][3])
     IN /\ lastOid' = insertedId
        /\ products' = InsertOne(products, slot[r].arg, insertedId)
        /\ Answer(r, Respond(slot[r], 201, created))
        /\ sent' = [o \in DOMAIN sent \cup {returned} |->
                      IF o = returned THEN slot[r].body ELSE sent[o]]
  /\ UNCHANGED <<productsCollection, listening, gone, served>>

\* findOneAndUpdate and lines 169-170
PutReply(r) ==
  /\ slot[r].pc = "store"
  /\ slot[r].op = "findOneAndUpdate"
  /\ LET result == FindOneAndUpdate(products, slot[r].oid, slot[r].arg, now)
     IN /\ products' = result.coll
        /\ Answer(r, IF result.value = <<>>
                     THEN Respond(slot[r], 404, Error("Not found"))
                     ELSE Respond(slot[r], 200, Json(result.value[1])))
  /\ sent' = [o \in DOMAIN sent \ {slot[r].oid} |-> sent[o]]
  /\ UNCHANGED <<productsCollection, listening, lastOid, gone, served>>

\* deleteOne and lines 187-189
DeleteReply(r) ==
  /\ slot[r].pc = "store"
  /\ slot[r].op = "deleteOne"
  /\ LET result == DeleteOne(products, slot[r].oid)
     IN /\ products' = result.coll
        /\ Answer(r, IF result.deletedCount = 0
                     THEN Respond(slot[r], 404, Error("Not found"))
                     ELSE Respond(slot[r], 200,
                            [deleted |-> Bool(TRUE), id |-> Str(slot[r].id)]))
        /\ gone' = IF result.deletedCount = 0 THEN gone
                   ELSE gone \cup {slot[r].oid}
  /\ sent' = [o \in DOMAIN sent \ {slot[r].oid} |-> sent[o]]
  /\ UNCHANGED <<productsCollection, listening, lastOid, served>>

\* The client has its response; the connection is free again.
Close(r) ==
  /\ slot[r].pc = "done"
  /\ slot' = [slot EXCEPT ![r] = [Idle EXCEPT !.overlap = slot[r].overlap]]
  /\ UNCHANGED <<productsCollection, listening, products, lastOid, sent, gone, served>>

\* ---------------------------------------------------------- specifications
Init ==
  /\ productsCollection = FALSE
  /\ listening = FALSE
  /\ products = EmptyColl
  /\ lastOid = 0
  /\ slot = [r \in Slots |-> Idle]
  /\ sent = EmptyColl
  /\ gone = {}
  /\ served = 0

Reply(r) ==
  \/ ListReply(r)
  \/ GetReply(r)
  \/ PostReply(r)
  \/ PutReply(r)
  \/ DeleteReply(r)
  \/ Close(r)

\* One client that sends its next request when it has the response.
Next ==
  \/ ConnectDB
  \/ Listen
  \/ GetRoot(1)
  \/ \E q \in Queries : ListProducts(1, q)
  \/ \E id \in IdStrings : GetProduct(1, id)
  \/ \E body \in PostBodies : PostProduct(1, body)
  \/ \E id \in IdStrings, body \in PutBodies : PutProduct(1, id, body)
  \/ \E id \in IdStrings : DeleteProduct(1, id)
  \/ Reply(1)

Spec == Init /\ [][Next]_vars


\* The express application on its own: requests are dispatched to its routes
\* from the moment they are registered (lines 30-194), before connectDB has
\* set the handle.
InitRoutes ==
  /\ productsCollection = FALSE
  /\ listening = TRUE
  /\ products = EmptyColl
  /\ lastOid = 0
  /\ slot = [r \in Slots |-> Idle]
  /\ sent = EmptyColl
  /\ gone = {}
  /\ served = 0

NextRoutes ==
  \/ ConnectDB
  \/ GetRoot(1)
  \/ \E q \in Queries : ListProducts(1, q)
  \/ \E id \in IdStrings : GetProduct(1, id)
  \/ \E body \in PostBodies : PostProduct(1, body)
  \/ \E id \in IdStrings, body \in PutBodies : PutProduct(1, id, body)
  \/ \E id \in IdStrings : DeleteProduct(1, id)
  \/ Reply(1)

SpecRoutes == InitRoutes /\ [][NextRoutes]_vars

\* Several clients at once; their requests name the first document, stored or
\* not.
ConcIds == {ToHexString(1)}

ConcQueries == {NoQuery}

ConcPostBodies ==
  [name : {Str("Pen")}, category : {Str("Ink")}, price : {Undefined, Num(5)},
   stock : {Undefined}, createdAt : {Undefined}]

ConcPutBodies ==
  [name : {Undefined}, category : {Undefined},
   price : {Undefined, Num(10)}, stock : {Undefined, Num(7)},
   createdAt : {Undefined}]

NextConc ==
  \/ ConnectDB
  \/ Listen
  \/ \E r \in Slots :
       \/ GetRoot(r)
       \/ \E q \in ConcQueries : ListProducts(r, q)
       \/ \E id \in ConcIds : GetProduct(r, id)
       \/ \E body \in ConcPostBodies : PostProduct(r, body)
       \/ \E id \in ConcIds, body \in ConcPutBodies : PutProduct(r, id, body)
       \/ \E id \in ConcIds : DeleteProduct(r, id)
       \/ Reply(r)

SpecConc == Init /\ [][NextConc]_vars


\* ================================================================== claims
\* Shorthands for the requests of the claims.
Done(r, method) == slot[r].pc = "done" /\ slot[r].method = method

\* The response body of a request answered with one object.
Answered(r) == slot[r].items[1]

\* The allowed fields a body supplies.
Supplied(body) == {k \in Allowed : body[k] # Undefined}

\* A supplied price or stock is a number.
NumericTypes(body) ==
  /\ body["price"] # Undefined => TypeOf(body["price"]) = "number"
  /\ body["stock"] # Undefined => TypeOf(body["stock"]) = "number"

\* r's request arrives in this step.
Arrives(r) == slot[r].pc = "idle" /\ slot'[r].pc # "idle"

\* r's request is answered in this step.
IsAnswered(r) == slot[r].pc # "done" /\ slot'[r].pc = "done"

\* ---------------------------------------------------------------------- C1
\* C1: a get-by-id with the identifier a create returned, before any update
\* or delete of that identifier, is answered 200 with the name, category and
\* price of the create request and with its stock when that is a number,
\* with stock 0 otherwise.
C1_GetAfterCreate ==
  \A r \in Slots :
    (Done(r, "GET") /\ ParseObjectId(slot[r].id) \in DOMAIN sent) =>
      LET body == sent[ParseObjectId(slot[r].id)]
      IN /\ slot[r].status = 200
         /\ Get(Answered(r), "name") = body["name"]
         /\ Get(Answered(r), "category") = body["category"]
         /\ Get(Answered(r), "price") = body["price"]
         /\ Get(Answered(r), "stock") =
              IF TypeOf(body["stock"]) = "number" THEN body["stock"] ELSE Num(0)

\* A get of a record created with a stock that is not a number is answered
\* with stock 0.
C1_Witness ==
  \E r \in Slots :
    /\ Done(r, "GET")
    /\ ParseObjectId(slot[r].id) \in DOMAIN sent
    /\ sent[ParseObjectId(slot[r].id)]["stock"] = Str("abc")
    /\ slot[r].status = 200
    /\ Get(Answered(r), "stock") = Num(0)


\* ---------------------------------------------------------------------- C2
\* The update of r arrives for a record of the collection, with a supplied
\* set of allowed fields that is in `sets` and numeric price and stock.
UpdateArrives(r, sets) ==
  /\ Arrives(r)
  /\ slot'[r].method = "PUT"
  /\ ParseObjectId(slot'[r].id) \in DOMAIN products
  /\ Supplied(slot'[r].body) \in sets
  /\ NumericTypes(slot'[r].body)

\* The store applies r's update to a record of the collection.
UpdateApplies(r) ==
  /\ slot[r].pc = "store"
  /\ slot[r].method = "PUT"
  /\ slot'[r].pc = "done"
  /\ slot[r].oid \in DOMAIN products

\* The effect of r's update: answered 200 with the record as it is stored
\* after the update; of the stored record, the supplied allowed fields have
\* the values of the body, updatedAt is a date, every other field (_id,
\* createdAt, the allowed fields not supplied) is as before and no field
\* beyond these exists; every other record is as before.
UpdateFrame(r) ==
  LET o == slot[r].oid
      S == Supplied(slot[r].body)
  IN /\ slot'[r].status = 200
     /\ slot'[r].items = <<Json(products'[o])>>
     /\ DOMAIN products' = DOMAIN products
     /\ \A p \in DOMAIN products \ {o} : products'[p] = products[p]
     /\ DOMAIN products'[o] = DOMAIN products[o] \cup S \cup {"updatedAt"}
     /\ \A f \in S : Get(products'[o], f) = slot[r].body[f]
     /\ \A f \in DOMAIN products[o] \ (S \cup {"updatedAt"}) :
          Get(products'[o], f) = products[o][f]
     /\ Get(products'[o], "updatedAt") = Date(now)

\* C2 as stated: an update of an existing record that supplies any subset S
\* of the allowed fields, with numeric price and stock, is passed to the
\* store, answered 200 with the record after the update, and changes only
\* the fields in S and updatedAt of that record.
C2_UpdateAnySubset ==
  [][\A r \in Slots :
       /\ UpdateArrives(r, SUBSET Allowed) => slot'[r].pc = "store"
       /\ UpdateApplies(r) => UpdateFrame(r)]_vars

\* C2 amended: the same for every non-empty subset S.
C2_UpdateNonEmptySubset ==
  [][\A r \in Slots :
       /\ UpdateArrives(r, SUBSET Allowed \ {{}}) => slot'[r].pc = "store"
       /\ UpdateApplies(r) => UpdateFrame(r)]_vars

\* An update that supplies price, stock and a field outside the allow-list
\* but neither name nor category is answered 200 while another record is in
\* the collection.
C2_Witness ==
  \E r \in Slots :
    /\ Done(r, "PUT")
    /\ slot[r].status = 200
    /\ Supplied(slot[r].body) = {"price", "stock"}
    /\ slot[r].body["createdAt"] # Undefined
    /\ Cardinality(DOMAIN products) = 2

\* ---------------------------------------------------------------------- C3
\* A request of the three kinds that name an identifier.
ById(r) == slot[r].method \in {"GET", "PUT", "DELETE"}

Malformed == {"not-an-id"}

\* r arrives with a malformed identifier.
MalformedArrives(r) ==
  /\ Arrives(r)
  /\ slot'[r].method \in {"GET", "PUT", "DELETE"}
  /\ slot'[r].id \in Malformed

C5_StoredRecordsValid ==
  \A o \in DOMAIN products :
    /\ TypeOf(Get(products[o], "name")) = "string"
    /\ Get(products[o], "name") # Str("")
    /\ TypeOf(Get(products[o], "category")) = "string"
    /\ Get(products[o], "category") # Str("")
    /\ TypeOf(Get(products[o], "price")) = "number"
    /\ TypeOf(Get(products[o], "stock")) = "number"

\* ---------------------------------------------------------------------- C6
\* C6: the handle, once set, stays set; a product request that arrives while
\* it is not set is answered 503 at once, whatever its input, without a store
\* command and with the collection unchanged; the health check is answered
\* 200 whether the handle is set or not.
C6_ReadinessGate ==
  [][/\ productsCollection => productsCollection'
     /\ \A r \in Slots :
          Arrives(r) =>
            IF slot'[r].method = "ROOT"
            THEN slot'[r].pc = "done" /\ slot'[r].status = 200
            ELSE ~productsCollection =>
                   /\ slot'[r].pc = "done"
                   /\ slot'[r].status = 503
                   /\ slot'[r].op = ""
                   /\ products' = products]_vars

\* An update with a malformed identifier and no allowed field is answered
\* 503 while the handle is not set.
C6_Witness ==
  \E r \in Slots :
    /\ ~productsCollection
    /\ Done(r, "PUT")
    /\ slot[r].id \in Malformed
    /\ Supplied(slot[r].body) = {}
    /\ slot[r].status = 503


\* ---------------------------------------------------------------------- C7
\* The minPrice strings that are numerals, and their values.
Numerals == {Str("5"), Str("10")}

NumeralValue(v) == IF v = Str("5") THEN 5 ELSE 10

\* The records the claim expects of a list request: price at least the
\* minPrice and, when a (non-empty) category is given, that category.
Expected(q, coll) ==
  {o \in DOMAIN coll :
     /\ Get(coll[o], "price")[2] >= NumeralValue(q.minPrice)
     /\ q.category \notin {Undefined, Str("")} =>
          Get(coll[o], "category") = q.category}

\* The sequences that list each element of ids once.
Listings(ids) ==
  {s \in [1 .. Cardinality(ids) -> ids] :
     \A i, j \in DOMAIN s : i # j => s[i] # s[j]}

C8_OnlyRequestedFields ==
  \A r \in Slots :
    (Done(r, "LIST") /\ slot[r].status = 200 /\ Truthy(slot[r].query.fields)) =>
      \A i \in DOMAIN slot[r].items :
        \E o \in DOMAIN products :
          /\ DOMAIN slot[r].items[i] =
               SelectedFields(slot[r].query.fields) \cap DOMAIN products[o]
          /\ \A f \in DOMAIN slot[r].items[i] :
               slot[r].items[i][f] = JsonValue(products[o][f])

\* ---------------------------------------------------------------------- C9
\* The store answers r's update in this step.
UpdateAnswered(r) ==
  /\ slot[r].pc = "store"
  /\ slot[r].method = "PUT"
  /\ slot'[r].pc = "done"

\* r1's update was answered 200 while r2's update of the same record was
\* with the store, the two supply disjoint sets of allowed fields, and the
\* record holds r1's values when the store answers r2's.
SecondOfTwo(r1, r2) ==
  /\ r1 # r2
  /\ Done(r1, "PUT")
  /\ slot[r1].status = 200
  /\ r2 \in slot[r1].overlap
  /\ UpdateAnswered(r2)
  /\ slot[r2].oid = slot[r1].oid
  /\ Supplied(slot[r1].body) \cap Supplied(slot[r2].body) = {}
  /\ slot[r1].oid \in DOMAIN products
  /\ \A f \in Supplied(slot[r1].body) :
       products[slot[r1].oid][f] = slot[r1].body[f]

\* C9: of two updates of one record that are with the store at the same time
\* and supply disjoint sets of allowed fields, the second is answered 200
\* too and leaves the record with the values of both; an update is answered
\* 200 or 404, with 404 and without a write once the delete of its record
\* was answered 200, and no deleted record is in the collection again.
C9_ConcurrentUpdates ==
  [][/\ \A r1, r2 \in Slots :
          SecondOfTwo(r1, r2) =>
            /\ slot'[r2].status = 200
            /\ slot[r1].oid \in DOMAIN products'
            /\ \A f \in Supplied(slot[r1].body) :
                 Get(products'[slot[r1].oid], f) = slot[r1].body[f]
            /\ \A f \in Supplied(slot[r2].body) :
                 Get(products'[slot[r1].oid], f) = slot[r2].body[f]
     /\ \A r \in Slots :
          UpdateAnswered(r) =>
            /\ slot'[r].status \in {200, 404}
            /\ slot[r].oid \in gone =>
                 slot'[r].status = 404 /\ products' = products
     /\ gone' \cap DOMAIN products' = {}]_vars

\* Two updates of one record, one of price and one of stock, were with the
\* store at the same time, both are answered 200 and the record has both
\* values.
C9_Witness ==
  \E r1, r2 \in Slots :
    /\ r1 # r2
    /\ Done(r1, "PUT") /\ slot[r1].status = 200
    /\ Done(r2, "PUT") /\ slot[r2].status = 200
    /\ r2 \in slot[r1].overlap
    /\ Supplied(slot[r1].body) = {"price"}
    /\ Supplied(slot[r2].body) = {"stock"}
    /\ slot[r1].oid \in DOMAIN products
    /\ products[slot[r1].oid]["price"] = slot[r1].body["price"]
    /\ products[slot[r1].oid]["stock"] = slot[r2].body["stock"]

\* --------------------------------------------------------------------- C10
\* C10: a create, update or delete that is answered 400, 404 or 503 changes
\* the collection neither in the step in which it arrives nor in the step
\* in which it is answered.
C10_RejectedWritesNothing ==
  [][\A r \in Slots :
       /\ (Arrives(r) /\ slot'[r].method \in {"POST", "PUT", "DELETE"}) =>
            products' = products
       /\ (IsAnswered(r) /\ slot'[r].method \in {"POST", "PUT", "DELETE"}
             /\ slot'[r].status \in {400, 404, 503}) =>
            products' = products]_vars

\* An update of a stored record that supplies a name and a price that is no
\* number is answered 400.
C10_Witness ==
  \E r \in Slots :
    /\ Done(r, "PUT")
    /\ ParseObjectId(slot[r].id) \in DOMAIN products
    /\ slot[r].body["name"] # Undefined
    /\ slot[r].body["price"] = Str("abc")
    /\ slot[r].status = 400

====
